---- MODULE Spec2Model ----
(***************************************************************************)
(* Safe Backup (src/src/main.rs): backup, restore and delete of one named  *)
(* file per run, with a copy-to-staging + rename protocol, confirmation    *)
(* prompts and an audit log.                                               *)
(*                                                                         *)
(* Strings are sequences of one-character strings.  A file's content is    *)
(* [id, len, tail]: the first len bytes of the byte stream id, followed by *)
(* the audit lines of tail.  The directory is fs: name -> content or       *)
(* NoFile.  Every fallible call of the source (the ? operator) may fail.   *)
(*                                                                         *)
(* Specifications:                                                         *)
(*   Spec            one instance, MaxRuns runs, any directory             *)
(*   SpecRoundTrip   one instance, RoundTripRuns runs, the user editing    *)
(*                   files between the runs                                *)
(*   SpecRetry       one instance, RetryRuns runs, each run recorded for   *)
(*                   the next one                                          *)
(*   SpecConcurrent  two instances backing up the same file at once        *)
(*   SpecValidate    isValidFilename on its own                            *)
(***************************************************************************)
EXTENDS Integers, Sequences, FiniteSets, TLC

VARIABLES fs, proc, hist, clock, maxRuns, instances, snap, last, query

vars == <<fs, proc, hist, clock, maxRuns, instances, snap, last, query>>

(***************************************************************************)
(* Bounds of the model                                                     *)
(***************************************************************************)
\* runs of the program in one behaviour of Spec
MaxRuns == 1
\* runs of the program in one behaviour of SpecRoundTrip
RoundTripRuns == 2
\* runs of the program in one behaviour of SpecRetry
RetryRuns == 2
\* length of the short names isValidFilename is given in SpecValidate
MaxNameLen == 3

(***************************************************************************)
(* Program constants                                                       *)
(***************************************************************************)
MAX_FILENAME_LENGTH == 255

MAX_FILE_SIZE == 10 * 1024 * 1024

\* an alphabet without the underscore
VALID_CHAR_NoUnderscore ==
  { "a","b","c","d","e","f","g","h","i","j","k","l","m",
    "n","o","p","q","r","s","t","u","v","w","x","y","z",
    "A","B","C","D","E","F","G","H","I","J","K","L","M",
    "N","O","P","Q","R","S","T","U","V","W","X","Y","Z",
    "0","1","2","3","4","5","6","7","8","9","-","." }

VALID_CHAR ==
  { "a","b","c","d","e","f","g","h","i","j","k","l","m",
    "n","o","p","q","r","s","t","u","v","w","x","y","z",
    "A","B","C","D","E","F","G","H","I","J","K","L","M",
    "N","O","P","Q","R","S","T","U","V","W","X","Y","Z",
    "0","1","2","3","4","5","6","7","8","9","_","-","." }

(***************************************************************************)
(* String helpers (Rust's str::contains, trim, to_lowercase, format!)      *)
(***************************************************************************)
Contains(s, sub) ==
  \E i \in 1..(Len(s) - Len(sub) + 1) : SubSeq(s, i, i + Len(sub) - 1) = sub

WhiteSpace == { " ", "\n", "\r", "\t" }

RECURSIVE TrimStart(_)
TrimStart(s) ==
  IF s # <<>> /\ Head(s) \in WhiteSpace THEN TrimStart(Tail(s)) ELSE s

RECURSIVE TrimEnd(_)
TrimEnd(s) ==
  IF s # <<>> /\ s[Len(s)] \in WhiteSpace
  THEN TrimEnd(SubSeq(s, 1, Len(s) - 1)) ELSE s

Trim(s) == TrimEnd(TrimStart(s))

UpperCase ==
  << "A","B","C","D","E","F","G","H","I","J","K","L","M",
     "N","O","P","Q","R","S","T","U","V","W","X","Y","Z" >>

LowerCase ==
  << "a","b","c","d","e","f","g","h","i","j","k","l","m",
     "n","o","p","q","r","s","t","u","v","w","x","y","z" >>

LowerChar(c) ==
  IF \E i \in 1..26 : UpperCase[i] = c
  THEN LowerCase[CHOOSE i \in 1..26 : UpperCase[i] = c]
  ELSE c

ToLowercase(s) == [i \in 1..Len(s) |-> LowerChar(s[i])]

(***************************************************************************)
(* isValidFilename, main.rs 14-24                                          *)
(***************************************************************************)
\* a validation that forgets the ".." check
isValidFilenameNoDotDot(filename) ==
  IF filename = <<>> \/ Len(filename) > MAX_FILENAME_LENGTH THEN FALSE
  ELSE IF \/ Contains(filename, <<"/">>)
          \/ Contains(filename, <<"\\">>) THEN FALSE
  ELSE \A i \in 1..Len(filename) : filename[i] \in VALID_CHAR

\* a validation that takes the limit for the first length too long
isValidFilenameOffByOne(filename) ==
  IF filename = <<>> \/ Len(filename) >= MAX_FILENAME_LENGTH THEN FALSE
  ELSE IF \/ Contains(filename, <<".", ".">>)
          \/ Contains(filename, <<"/">>)
          \/ Contains(filename, <<"\\">>) THEN FALSE
  ELSE \A i \in 1..Len(filename) : filename[i] \in VALID_CHAR

\* filename.len() counts bytes; every character of this model is one byte
isValidFilename(filename) ==
  IF filename = <<>> \/ Len(filename) > MAX_FILENAME_LENGTH THEN FALSE
  ELSE IF \/ Contains(filename, <<".", ".">>)
          \/ Contains(filename, <<"/">>)
          \/ Contains(filename, <<"\\">>) THEN FALSE
  ELSE \A i \in 1..Len(filename) : filename[i] \in VALID_CHAR

(***************************************************************************)
(* File names                                                              *)
(***************************************************************************)
\* format!("{}.bak", filename), main.rs 50 and 99
BakName(filename) == filename \o <<".", "b", "a", "k">>

\* format!("{}.tmp", ...), main.rs 64 and 136
TmpName(name) == name \o <<".", "t", "m", "p">>

\* "logfile.txt", main.rs 212
LogName == <<"l", "o", "g", "f", "i", "l", "e", ".", "t", "x", "t">>

\* the file names the user enters in this model
UserFile == <<"n", "o", "t", "e", "s", ".", "t", "x", "t">>

Targets == { UserFile, LogName }

\* the path of a name, the key of the directory
RECURSIVE Path(_)
Path(name) == IF name = <<>> THEN "" ELSE Head(name) \o Path(Tail(name))

Names ==
  { Path(n) :
      n \in UNION { { t, BakName(t), TmpName(BakName(t)), TmpName(t) } : t \in Targets }
               \cup { LogName } }

(***************************************************************************)
(* File contents                                                           *)
(***************************************************************************)
\* an absent directory entry
NoFile == [id |-> -1, len |-> 0, tail |-> <<>>]

Empty == [id |-> 0, len |-> 0, tail |-> <<>>]

Data(i, n) == IF n = 0 THEN Empty ELSE [id |-> i, len |-> n, tail |-> <<>>]

\* "[%Y-%m-%d %H:%M:%S] " is 22 bytes, then the message and "\n"
LineBytes(line) == 22 + Len(line.msg) + 1

RECURSIVE TailBytes(_)
TailBytes(t) == IF t = <<>> THEN 0 ELSE LineBytes(Head(t)) + TailBytes(Tail(t))

\* fs::metadata(..).len()
Size(c) == c.len + TailBytes(c.tail)

\* c1 is c2 with bytes appended (or c2 itself)
IsPrefix(c1, c2) ==
  \/ c1 = c2
  \/ c1 = Empty
  \/ /\ c1.tail = <<>>
     /\ c1.id = c2.id
     /\ c1.len <= c2.len
  \/ /\ c1.id = c2.id
     /\ c1.len = c2.len
     /\ Len(c1.tail) <= Len(c2.tail)
     /\ SubSeq(c2.tail, 1, Len(c1.tail)) = c1.tail

\* the contents a copy that stops early leaves behind: proper prefixes of c
ShortCopies(c) ==
  ({ Empty }
     \cup (IF c.len > 0 THEN { Data(c.id, c.len - 1) } ELSE {})
     \cup (IF c.tail # <<>>
           THEN { [c EXCEPT !.tail = SubSeq(c.tail, 1, Len(c.tail) - 1)] }
           ELSE {}))
    \ { c }

\* Path::new(name).exists()
Exists(name) == fs[Path(name)] # NoFile

(***************************************************************************)
(* logAction, main.rs 202-216                                              *)
(***************************************************************************)
\* action.replace("\n", " ").replace("\r", " "), main.rs 204
Sanitize(action) ==
  [i \in 1..Len(action) |-> IF action[i] \in { "\n", "\r" } THEN " " ELSE action[i]]

\* the line writeln! writes, main.rs 207 and 214: the timestamp is the clock's value
LogLine(now, action) == [ts |-> now, msg |-> Path(Sanitize(action))]

\* a logger that writes its line twice
AppendLineTwice(c, line) ==
  IF c = NoFile THEN [Empty EXCEPT !.tail = <<line, line>>]
  ELSE [c EXCEPT !.tail = Append(Append(@, line), line)]

AppendLine(c, line) ==
  IF c = NoFile THEN [Empty EXCEPT !.tail = <<line>>]
  ELSE [c EXCEPT !.tail = Append(@, line)]

LogOutcomes == { "written", "open failed", "write failed" }

\* the directory after logAction(action) ends with the given outcome:
\* OpenOptions::create(true).append(true) creates an absent log before the write
logAction(dir, now, action, outcome) ==
  IF outcome = "written"
  THEN [dir EXCEPT ![Path(LogName)] = AppendLine(@, LogLine(now, action))]
  ELSE IF outcome = "write failed" /\ dir[Path(LogName)] = NoFile
  THEN [dir EXCEPT ![Path(LogName)] = Empty]
  ELSE dir

BackupMsg(filename) ==
  << "P", "e", "r", "f", "o", "r", "m", "e", "d", " ", "b", "a", "c", "k", "u", "p", " ", "o", "n", " " >> \o filename

RestoreMsg(filename) ==
  << "P", "e", "r", "f", "o", "r", "m", "e", "d", " ", "r", "e", "s", "t", "o", "r", "e", " ", "o", "n", " " >> \o filename

DeleteMsg(filename) ==
  << "P", "e", "r", "f", "o", "r", "m", "e", "d", " ", "d", "e", "l", "e", "t", "e", " ", "o", "n", " " >> \o filename

(***************************************************************************)
(* Inputs read from standard input                                         *)
(***************************************************************************)
FilenameLines ==
  { UserFile \o <<"\n">>,
    <<" ">> \o LogName \o <<"\n">>,
    << ".", ".", "/", "e", "t", "c", "/", "p", "a", "s", "s", "w", "d", "\n" >>,
    <<"\n">> }

CommandLines ==
  { << "b", "a", "c", "k", "u", "p", "\n" >>, << "r", "e", "s", "t", "o", "r", "e", "\n" >>, << "d", "e", "l", "e", "t", "e", "\n" >>, << "B", "a", "c", "k", "u", "p", "\n" >> }

ConfirmLines ==
  { << "y", "e", "s", "\n" >>,
    << " ", "Y", "E", "S", " ", "\n" >>,
    << "n", "o", "\n" >>,
    << "D", "E", "L", "E", "T", "E", "\n" >>,
    << " ", "D", "E", "L", "E", "T", "E", " ", "\n" >>,
    << "d", "e", "l", "e", "t", "e", "\n" >> }

(***************************************************************************)
(* Processes: one per running instance of the program                      *)
(***************************************************************************)
Procs == { 1, 2 }

\* no open output file
Closed == ""

\* out: the path that currently names the file outputFile is open on (Closed:
\* none, or a file that has no name any more)
IdleProc ==
  [ pc |-> "idle", filename |-> <<>>, command |-> <<>>, len |-> -1,
    confirm |-> <<>>, copied |-> -1, result |-> "none", exit |-> -1,
    out |-> Closed ]

\* what a run has done so far (history, read by the properties only)
NoHist(dir) ==
  [ pre |-> dir, cmdRead |-> FALSE, prompted |-> FALSE, accessed |-> FALSE,
    created |-> FALSE, renamed |-> FALSE, removed |-> FALSE,
    logged |-> 0, failedAt |-> "none" ]

\* the run before this one (history, read by the properties only): none
NoLast ==
  [ run |-> FALSE, filename |-> <<>>, command |-> <<>>, result |-> "none",
    failedAt |-> "none", renamed |-> FALSE, pre |-> <<>> ]

\* a call of isValidFilename on its own: none
NoQuery == [ name |-> <<>>, verdict |-> "none" ]

\* a main that prints the error and returns normally
ExitCodeAlwaysZero(result) == 0

\* main.rs 255-258: an Err makes the process exit with 1, an Ok with 0
ExitCode(result) == IF result = "Ok" THEN 0 ELSE 1


BACKUP == <<"b", "a", "c", "k", "u", "p">>

RESTORE == <<"r", "e", "s", "t", "o", "r", "e">>

DELETE == <<"d", "e", "l", "e", "t", "e">>

Src(p) ==
  Path(IF proc[p].command = BACKUP THEN proc[p].filename ELSE BakName(proc[p].filename))

DstName(p) ==
  IF proc[p].command = BACKUP THEN BakName(proc[p].filename) ELSE proc[p].filename

Dst(p) == Path(DstName(p))

\* a staging name that differs between the instances
StagingByInstance(p) ==
  Path(TmpName(IF p = 1 THEN DstName(p) ELSE proc[p].filename))

Staging(p) == Path(TmpName(DstName(p)))

\* a function's return to main, main.rs 255-262
Returned(r, res) ==
  [r EXCEPT !.pc = "done", !.result = res, !.exit = ExitCode(res), !.out = Closed]

\* the open files of the processes after a rename of the path from to the path
\* to: a file open under the name from is now named to, the file that was named
\* to has no name any more
Renamed(procs, from, to) ==
  [q \in Procs |->
     IF procs[q].out = from THEN [procs[q] EXCEPT !.out = to]
     ELSE IF procs[q].out = to THEN [procs[q] EXCEPT !.out = Closed]
     ELSE procs[q]]

\* the open files of the processes after the removal of the path name
Unlinked(procs, name) ==
  [q \in Procs |-> IF procs[q].out = name THEN [procs[q] EXCEPT !.out = Closed] ELSE procs[q]]

\* the content of a file that held old after c was written from its start
\* (the writer's own offset): bytes past the end of c stay
WriteOver(old, c) == IF old # NoFile /\ IsPrefix(c, old) THEN old ELSE c

Failed(h, step) == [h EXCEPT !.failedAt = step]

\* a size check that also rejects a file of exactly the limit
TooLargeOrEqual(len) == len >= MAX_FILE_SIZE

\* metadata.len() > MAX_FILE_SIZE, main.rs 43 and 119
TooLarge(len) == len > MAX_FILE_SIZE

\* a confirmation that takes every answer but "no" for consent
IsYesUnlessNo(line) == ToLowercase(Trim(line)) # <<"n", "o">>

\* confirm.trim().to_lowercase() != "yes" is the refusal, main.rs 58 and 130
IsYes(line) == ToLowercase(Trim(line)) = <<"y", "e", "s">>

\* a delete confirmation compared without case
IsDeleteAnyCase(line) == ToLowercase(Trim(line)) = <<"d", "e", "l", "e", "t", "e">>

\* confirm.trim() == "DELETE", main.rs 182
IsDelete(line) == Trim(line) = <<"D", "E", "L", "E", "T", "E">>

(***************************************************************************)
(* main, main.rs 219-263                                                   *)
(***************************************************************************)
\* an entry check that rejects only the empty name
EntryRejectsEmptyOnly(filename) == filename = <<>>

\* !isValidFilename(filename), main.rs 230
EntryRejects(filename) == ~isValidFilename(filename)

\* main.rs 222-235: read the file name, trim it, validate it
ReadFilename(p) ==
  /\ proc[p].pc = "idle"
  /\ p <= instances
  /\ clock < maxRuns
  /\ \E line \in FilenameLines, ok \in BOOLEAN :
       /\ proc' = [proc EXCEPT ![p] =
            IF ~ok THEN [IdleProc EXCEPT !.pc = "done", !.exit = 1]
            ELSE IF EntryRejects(Trim(line))
            THEN [IdleProc EXCEPT !.pc = "done", !.filename = Trim(line), !.exit = 1]
            ELSE [IdleProc EXCEPT !.pc = "command", !.filename = Trim(line)]]
       /\ hist' = [hist EXCEPT ![p] =
            IF ok THEN NoHist(fs) ELSE Failed(NoHist(fs), "read")]
  /\ clock' = clock + 1
  /\ UNCHANGED <<fs, maxRuns, instances, snap, last, query>>

\* a dispatch that compares the command without case
DispatchAnyCase(command) ==
  IF ToLowercase(command) = BACKUP THEN "b_check"
  ELSE IF ToLowercase(command) = RESTORE THEN "r_check"
  ELSE IF ToLowercase(command) = DELETE THEN "d_check"
  ELSE "invalid"

\* match command { "backup" => .., "restore" => .., "delete" => .., _ => .. },
\* main.rs 245-253: the function main calls, or "invalid"
Dispatch(command) ==
  IF command = BACKUP THEN "b_check"
  ELSE IF command = RESTORE THEN "r_check"
  ELSE IF command = DELETE THEN "d_check"
  ELSE "invalid"

\* main.rs 237-253: read the command, trim it, dispatch on it
ReadCommand(p) ==
  /\ proc[p].pc = "command"
  /\ \E line \in CommandLines, ok \in BOOLEAN :
       LET command == Trim(line) IN
       /\ proc' = [proc EXCEPT ![p] =
            IF ~ok THEN [@ EXCEPT !.pc = "done", !.exit = 1]
            ELSE IF Dispatch(command) = "invalid"
            THEN [@ EXCEPT !.pc = "done", !.command = command, !.exit = 1]
            ELSE [@ EXCEPT !.pc = Dispatch(command), !.command = command]]
       /\ hist' = [hist EXCEPT ![p] =
            IF ok THEN [@ EXCEPT !.cmdRead = TRUE] ELSE Failed(@, "read")]
  /\ UNCHANGED <<fs, clock, maxRuns, instances, snap, last, query>>

\* the process ends
Exit(p) ==
  /\ proc[p].pc = "done"
  /\ proc' = [proc EXCEPT ![p] = IdleProc]
  /\ hist' = [hist EXCEPT ![p] = NoHist(<<>>)]
  /\ UNCHANGED <<fs, clock, maxRuns, instances, snap, last, query>>

(***************************************************************************)
(* The copy-to-staging and rename steps, the same code in backupFile       *)
(* (main.rs 64-88) and restoreFile (main.rs 136-159)                       *)
(***************************************************************************)
\* fs::File::open(path)?, main.rs 66 and 138
OpenSource(p, next) ==
  /\ \E granted \in BOOLEAN :
       LET ok == granted /\ fs[Src(p)] # NoFile IN
       /\ proc' = [proc EXCEPT ![p] =
            IF ok THEN [@ EXCEPT !.pc = next] ELSE Returned(@, "Io")]
       /\ hist' = [hist EXCEPT ![p] = IF ok THEN @ ELSE Failed(@, "open")]
  /\ UNCHANGED <<fs, clock, maxRuns, instances, snap, last, query>>

\* a creation that refuses a staging name that exists (create_new)
CreateStagingExclusive(p, next) ==
  /\ \E ok \in BOOLEAN :
       LET free == fs[Staging(p)] = NoFile IN
       /\ proc' = [proc EXCEPT ![p] =
            IF ok /\ free THEN [@ EXCEPT !.pc = next, !.out = Staging(p)]
            ELSE Returned(@, "Io")]
       /\ hist' = [hist EXCEPT ![p] =
            IF ~free THEN @
            ELSE IF ok THEN [@ EXCEPT !.created = TRUE] ELSE Failed(@, "create")]
       /\ fs' = IF ok /\ free THEN [fs EXCEPT ![Staging(p)] = Empty] ELSE fs
  /\ UNCHANGED <<clock, maxRuns, instances, snap, last, query>>

\* fs::File::create(&currPath)?, main.rs 67 and 139: creates the staging file, or
\* truncates the file of that name (the file others may have open under it)
CreateStaging(p, next) ==
  /\ \E ok \in BOOLEAN :
       /\ proc' = [proc EXCEPT ![p] =
            IF ok THEN [@ EXCEPT !.pc = next, !.out = Staging(p)] ELSE Returned(@, "Io")]
       /\ hist' = [hist EXCEPT ![p] =
            IF ok THEN [@ EXCEPT !.created = TRUE] ELSE Failed(@, "create")]
       /\ fs' = IF ok THEN [fs EXCEPT ![Staging(p)] = Empty] ELSE fs
  /\ UNCHANGED <<clock, maxRuns, instances, snap, last, query>>

\* outputFile.metadata()?.permissions(), fs::set_permissions(..)?, main.rs 70-72
\* and 141-143: the permissions are set by path, which fails when no file has the
\* staging name
SetPermissions(p, next) ==
  /\ \E granted \in BOOLEAN :
       LET ok == granted /\ fs[Staging(p)] # NoFile IN
       /\ proc' = [proc EXCEPT ![p] =
            IF ok THEN [@ EXCEPT !.pc = next] ELSE Returned(@, "Io")]
       /\ hist' = [hist EXCEPT ![p] = IF ok THEN @ ELSE Failed(@, "perm")]
  /\ UNCHANGED <<fs, clock, maxRuns, instances, snap, last, query>>

\* io::copy(..)? and the check of the byte count, main.rs 74-81 and 145-152:
\* the copy reads all of the source or stops early and writes what it read to
\* the file outputFile is open on, whatever its name by now; it returns Ok or
\* Err.  fs::remove_file(&currPath) removes the file that has the staging name.
CopyBytes(p, next) ==
  /\ \E err \in BOOLEAN,
        c \in { fs[Src(p)] } \cup ShortCopies(fs[Src(p)]),
        unlinkFails \in BOOLEAN :
       LET written == IF proc[p].out = Closed THEN fs
                      ELSE [fs EXCEPT ![proc[p].out] = WriteOver(@, c)]
           copied == [proc EXCEPT ![p].copied = Size(c)] IN
       IF err
       THEN /\ fs' = written
            /\ proc' = [copied EXCEPT ![p] = Returned(@, "Io")]
            /\ hist' = [hist EXCEPT ![p] = Failed(@, "copy")]
       ELSE IF Size(c) # proc[p].len
       THEN IF ~unlinkFails /\ written[Staging(p)] # NoFile
            THEN /\ fs' = [written EXCEPT ![Staging(p)] = NoFile]
                 /\ proc' = [Unlinked(copied, Staging(p)) EXCEPT ![p] =
                      Returned(@, "InvalidData")]
                 /\ hist' = [hist EXCEPT ![p] = Failed(@, "short")]
            ELSE /\ fs' = written
                 /\ proc' = [copied EXCEPT ![p] = Returned(@, "Io")]
                 /\ hist' = [hist EXCEPT ![p] = Failed(@, "unlink")]
       ELSE /\ fs' = written
            /\ proc' = [copied EXCEPT ![p] = [@ EXCEPT !.pc = next, !.out = Closed]]
            /\ hist' = hist
  /\ UNCHANGED <<clock, maxRuns, instances, snap, last, query>>

\* the directory after fs::rename(from, to), main.rs 84 and 155
Rename(dir, from, to) == [dir EXCEPT ![to] = dir[from], ![from] = NoFile]

\* fs::rename(&currPath, ..)?, main.rs 84 and 155: fails when no file has the
\* staging name
RenameStaging(p, next) ==
  /\ \E granted \in BOOLEAN :
       LET ok == granted /\ fs[Staging(p)] # NoFile IN
       /\ proc' = IF ok THEN [Renamed(proc, Staging(p), Dst(p)) EXCEPT ![p].pc = next]
                  ELSE [proc EXCEPT ![p] = Returned(@, "Io")]
       /\ hist' = [hist EXCEPT ![p] =
            IF ok THEN [@ EXCEPT !.renamed = TRUE]
            ELSE IF fs[Staging(p)] = NoFile THEN Failed(@, "rename of nothing")
            ELSE Failed(@, "rename")]
       /\ fs' = IF ok THEN Rename(fs, Staging(p), Dst(p)) ELSE fs
       /\ snap' = IF ok /\ proc[p].command = BACKUP
                  THEN [snap EXCEPT ![Path(proc[p].filename)] = NoFile] ELSE snap
  /\ UNCHANGED <<clock, maxRuns, instances, last, query>>

\* logAction(..)?; Ok(()), main.rs 86-88 and 157-159
WriteLog(p, action) ==
  /\ \E outcome \in LogOutcomes :
       /\ fs' = logAction(fs, clock, action, outcome)
       /\ proc' = [proc EXCEPT ![p] =
            Returned(@, IF outcome = "written" THEN "Ok" ELSE "Io")]
       /\ hist' = [hist EXCEPT ![p] =
            IF outcome = "written" THEN [@ EXCEPT !.logged = @ + 1]
            ELSE Failed(@, "log")]
       /\ snap' = IF outcome = "written" /\ proc[p].command = BACKUP
                  THEN [snap EXCEPT ![Path(proc[p].filename)] = hist[p].pre[Path(proc[p].filename)]]
                  ELSE snap
  /\ UNCHANGED <<clock, maxRuns, instances, last, query>>

(***************************************************************************)
(* backupFile, main.rs 26-89                                               *)
(***************************************************************************)
\* main.rs 27-48: the file name is valid, the file exists and is not too large
\* (fs::metadata at 42 reads the same entry path.exists() has just found: no
\* separate failure is drawn for it)
BackupCheck(p) ==
  /\ proc[p].pc = "b_check"
  /\ LET filename == proc[p].filename IN
       /\ proc' = [proc EXCEPT ![p] =
            IF ~isValidFilename(filename) THEN Returned(@, "InvalidInput")
            ELSE IF ~Exists(filename) THEN Returned(@, "NotFound")
            ELSE IF TooLarge(Size(fs[Path(filename)])) THEN Returned(@, "InvalidInput")
            ELSE [@ EXCEPT !.pc = "b_confirm", !.len = Size(fs[Path(filename)])]]
       /\ hist' = [hist EXCEPT ![p] =
            IF isValidFilename(filename) THEN [@ EXCEPT !.accessed = TRUE] ELSE @]
  /\ UNCHANGED <<fs, clock, maxRuns, instances, snap, last, query>>

\* main.rs 53-62: an existing backup is overwritten only on "yes"
BackupConfirm(p) ==
  /\ proc[p].pc = "b_confirm"
  /\ IF Exists(BakName(proc[p].filename))
     THEN \E line \in ConfirmLines, ok \in BOOLEAN :
            /\ proc' = [proc EXCEPT ![p] =
                 IF ~ok THEN Returned(@, "Io")
                 ELSE IF ~IsYes(line) THEN Returned([@ EXCEPT !.confirm = line], "Ok")
                 ELSE [@ EXCEPT !.pc = "b_open", !.confirm = line]]
            /\ hist' = [hist EXCEPT ![p] =
                 IF ok THEN [@ EXCEPT !.prompted = TRUE]
                 ELSE Failed([@ EXCEPT !.prompted = TRUE], "read")]
     ELSE /\ proc' = [proc EXCEPT ![p].pc = "b_open"]
          /\ hist' = hist
  /\ UNCHANGED <<fs, clock, maxRuns, instances, snap, last, query>>

\* main.rs 66
BackupOpen(p) == proc[p].pc = "b_open" /\ OpenSource(p, "b_create")

\* main.rs 67
BackupCreate(p) == proc[p].pc = "b_create" /\ CreateStaging(p, "b_perm")

\* main.rs 70-72
BackupPermissions(p) == proc[p].pc = "b_perm" /\ SetPermissions(p, "b_copy")

\* main.rs 74-81
BackupCopy(p) == proc[p].pc = "b_copy" /\ CopyBytes(p, "b_rename")

\* main.rs 84
BackupRename(p) == proc[p].pc = "b_rename" /\ RenameStaging(p, "b_log")

\* main.rs 85-88
BackupLog(p) == proc[p].pc = "b_log" /\ WriteLog(p, BackupMsg(proc[p].filename))

(***************************************************************************)
(* restoreFile, main.rs 91-160                                             *)
(***************************************************************************)
\* main.rs 92-124: the file name is valid, the backup exists and is not too large
RestoreCheck(p) ==
  /\ proc[p].pc = "r_check"
  /\ LET filename == proc[p].filename
         backup == BakName(proc[p].filename) IN
       /\ proc' = [proc EXCEPT ![p] =
            IF ~isValidFilename(filename) THEN Returned(@, "InvalidInput")
            ELSE IF ~Exists(backup) THEN Returned(@, "NotFound")
            ELSE IF TooLarge(Size(fs[Path(backup)])) THEN Returned(@, "InvalidInput")
            ELSE [@ EXCEPT !.pc = "r_confirm", !.len = Size(fs[Path(backup)])]]
       /\ hist' = [hist EXCEPT ![p] =
            IF isValidFilename(filename) THEN [@ EXCEPT !.accessed = TRUE] ELSE @]
  /\ UNCHANGED <<fs, clock, maxRuns, instances, snap, last, query>>

\* main.rs 126-134: an existing target is overwritten only on "yes"
RestoreConfirm(p) ==
  /\ proc[p].pc = "r_confirm"
  /\ IF Exists(proc[p].filename)
     THEN \E line \in ConfirmLines, ok \in BOOLEAN :
            /\ proc' = [proc EXCEPT ![p] =
                 IF ~ok THEN Returned(@, "Io")
                 ELSE IF ~IsYes(line) THEN Returned([@ EXCEPT !.confirm = line], "Ok")
                 ELSE [@ EXCEPT !.pc = "r_open", !.confirm = line]]
            /\ hist' = [hist EXCEPT ![p] =
                 IF ok THEN [@ EXCEPT !.prompted = TRUE]
                 ELSE Failed([@ EXCEPT !.prompted = TRUE], "read")]
     ELSE /\ proc' = [proc EXCEPT ![p].pc = "r_open"]
          /\ hist' = hist
  /\ UNCHANGED <<fs, clock, maxRuns, instances, snap, last, query>>

\* main.rs 138
RestoreOpen(p) == proc[p].pc = "r_open" /\ OpenSource(p, "r_create")

\* main.rs 139
RestoreCreate(p) == proc[p].pc = "r_create" /\ CreateStaging(p, "r_perm")

\* main.rs 141-143
RestorePermissions(p) == proc[p].pc = "r_perm" /\ SetPermissions(p, "r_copy")

\* main.rs 145-152
RestoreCopy(p) == proc[p].pc = "r_copy" /\ CopyBytes(p, "r_rename")

\* main.rs 155
RestoreRename(p) == proc[p].pc = "r_rename" /\ RenameStaging(p, "r_log")

\* main.rs 156-159
RestoreLog(p) == proc[p].pc = "r_log" /\ WriteLog(p, RestoreMsg(proc[p].filename))

(***************************************************************************)
(* deleteFile, main.rs 162-199                                             *)
(***************************************************************************)
\* main.rs 163-176: the file name is valid and the file exists
DeleteCheck(p) ==
  /\ proc[p].pc = "d_check"
  /\ LET filename == proc[p].filename IN
       /\ proc' = [proc EXCEPT ![p] =
            IF ~isValidFilename(filename) THEN Returned(@, "InvalidInput")
            ELSE IF ~Exists(filename) THEN Returned(@, "NotFound")
            ELSE [@ EXCEPT !.pc = "d_confirm"]]
       /\ hist' = [hist EXCEPT ![p] =
            IF isValidFilename(filename) THEN [@ EXCEPT !.accessed = TRUE] ELSE @]
  /\ UNCHANGED <<fs, clock, maxRuns, instances, snap, last, query>>

\* main.rs 178-182 and 192-198: the file is removed only on "DELETE"
DeleteConfirm(p) ==
  /\ proc[p].pc = "d_confirm"
  /\ \E line \in ConfirmLines, ok \in BOOLEAN :
       /\ proc' = [proc EXCEPT ![p] =
            IF ~ok THEN Returned(@, "Io")
            ELSE IF IsDelete(line) THEN [@ EXCEPT !.pc = "d_remove", !.confirm = line]
            ELSE Returned([@ EXCEPT !.confirm = line], "PermissionDenied")]
       /\ hist' = [hist EXCEPT ![p] =
            IF ok THEN [@ EXCEPT !.prompted = TRUE]
            ELSE Failed([@ EXCEPT !.prompted = TRUE], "read")]
  /\ UNCHANGED <<fs, clock, maxRuns, instances, snap, last, query>>

\* fs::remove_file(path)?, main.rs 183
DeleteRemove(p) ==
  /\ proc[p].pc = "d_remove"
  /\ \E refused \in BOOLEAN :
       LET fails == refused \/ fs[Path(proc[p].filename)] = NoFile IN
       /\ proc' = IF ~fails
                  THEN [Unlinked(proc, Path(proc[p].filename)) EXCEPT ![p].pc = "d_log"]
                  ELSE [proc EXCEPT ![p] = Returned(@, "Io")]
       /\ hist' = [hist EXCEPT ![p] =
            IF ~fails THEN [@ EXCEPT !.removed = TRUE] ELSE Failed(@, "remove")]
       /\ fs' = IF ~fails THEN [fs EXCEPT ![Path(proc[p].filename)] = NoFile] ELSE fs
  /\ UNCHANGED <<clock, maxRuns, instances, snap, last, query>>

\* a delete that returns the error of logAction, as backup and restore do
DeleteResultPropagated(outcome) == IF outcome = "written" THEN "Ok" ELSE "Io"

\* if let Err(e) = logAction(..) { eprintln!(..) }; Ok(()), main.rs 187-191
DeleteResult(outcome) == "Ok"

\* main.rs 185-191: a failure of logAction is only a warning
DeleteLog(p) ==
  /\ proc[p].pc = "d_log"
  /\ \E outcome \in LogOutcomes :
       /\ fs' = logAction(fs, clock, DeleteMsg(proc[p].filename), outcome)
       /\ proc' = [proc EXCEPT ![p] = Returned(@, DeleteResult(outcome))]
       /\ hist' = [hist EXCEPT ![p] =
            IF outcome = "written" THEN [@ EXCEPT !.logged = @ + 1]
            ELSE Failed(@, "log")]
  /\ UNCHANGED <<clock, maxRuns, instances, snap, last, query>>

(***************************************************************************)
(* The user, between runs: edits or removes a file the program manages     *)
(***************************************************************************)
Edited == Data(5, 1)

UserEdit ==
  /\ \A p \in Procs : proc[p].pc = "idle"
  /\ clock >= 1
  /\ \E t \in Targets, c \in { NoFile, Edited } :
       /\ fs[Path(t)] # c
       /\ fs' = [fs EXCEPT ![Path(t)] = c]
  /\ UNCHANGED <<proc, hist, clock, maxRuns, instances, snap, last, query>>

(***************************************************************************)
(* Initial states                                                          *)
(***************************************************************************)
\* the audit log an earlier run left
OldLog == AppendLine(NoFile, LogLine(0, DeleteMsg(UserFile)))

\* a directory holding the files of one target and the log
Dir(t, file, backup, stageR, stageB, log) ==
  [n \in Names |->
     IF n = Path(t) THEN file
     ELSE IF n = Path(BakName(t)) THEN backup
     ELSE IF n = Path(TmpName(t)) THEN stageR
     ELSE IF n = Path(TmpName(BakName(t))) THEN stageB
     ELSE IF n = Path(LogName) THEN log
     ELSE NoFile]

InitDirs ==
  { Dir(t, file, backup, stageR, stageB, log) :
      t \in Targets,
      file \in { NoFile, Data(1, MAX_FILE_SIZE), Data(1, MAX_FILE_SIZE + 1), OldLog },
      backup \in { NoFile, Data(2, MAX_FILE_SIZE), Data(2, MAX_FILE_SIZE + 1) },
      stageR \in { NoFile, Data(3, 1) },
      stageB \in { NoFile, Data(4, 1) },
      log \in { NoFile, OldLog } }

RoundTripDirs ==
  { Dir(t, file, NoFile, NoFile, NoFile, log) :
      t \in Targets,
      file \in { Data(1, 1), Data(1, MAX_FILE_SIZE), OldLog },
      log \in { NoFile, OldLog } }

InitProcs ==
  /\ proc = [p \in Procs |-> IdleProc]
  /\ hist = [p \in Procs |-> NoHist(<<>>)]
  /\ clock = 0
  /\ snap = [t \in { Path(t) : t \in Targets } |-> NoFile]

Init ==
  /\ fs \in InitDirs
  /\ maxRuns = MaxRuns
  /\ instances = 1
  /\ InitProcs
  /\ last = NoLast
  /\ query = NoQuery

InitRoundTrip ==
  /\ fs \in RoundTripDirs
  /\ maxRuns = RoundTripRuns
  /\ instances = 1
  /\ InitProcs
  /\ last = NoLast
  /\ query = NoQuery

Next ==
  \/ \E p \in Procs :
       \/ ReadFilename(p)
       \/ ReadCommand(p)
       \/ Exit(p)
       \/ BackupCheck(p)
       \/ BackupConfirm(p)
       \/ BackupOpen(p)
       \/ BackupCreate(p)
       \/ BackupPermissions(p)
       \/ BackupCopy(p)
       \/ BackupRename(p)
       \/ BackupLog(p)
       \/ RestoreCheck(p)
       \/ RestoreConfirm(p)
       \/ RestoreOpen(p)
       \/ RestoreCreate(p)
       \/ RestorePermissions(p)
       \/ RestoreCopy(p)
       \/ RestoreRename(p)
       \/ RestoreLog(p)
       \/ DeleteCheck(p)
       \/ DeleteConfirm(p)
       \/ DeleteRemove(p)
       \/ DeleteLog(p)
  \/ UserEdit

Spec == Init /\ [][Next]_vars

(***************************************************************************)
(* A run and its re-run: the process that ends leaves a record of its run, *)
(* and nobody edits the files in between                                   *)
(***************************************************************************)
\* the process ends
ExitRecorded(p) ==
  /\ proc[p].pc = "done"
  /\ proc' = [proc EXCEPT ![p] = IdleProc]
  /\ hist' = [hist EXCEPT ![p] = NoHist(<<>>)]
  /\ last' = [ run |-> TRUE, filename |-> proc[p].filename,
               command |-> proc[p].command, result |-> proc[p].result,
               failedAt |-> hist[p].failedAt, renamed |-> hist[p].renamed,
               pre |-> hist[p].pre ]
  /\ UNCHANGED <<fs, clock, maxRuns, instances, snap, query>>

RetryDirs ==
  { Dir(t, file, backup, NoFile, NoFile, log) :
      t \in Targets,
      file \in { NoFile, Data(1, 1) },
      backup \in { NoFile, Data(2, 2) },
      log \in { NoFile, OldLog } }

InitRetry ==
  /\ fs \in RetryDirs
  /\ maxRuns = RetryRuns
  /\ instances = 1
  /\ InitProcs
  /\ last = NoLast
  /\ query = NoQuery

NextRetry ==
  \E p \in Procs :
    \/ ReadFilename(p)
    \/ ReadCommand(p)
    \/ ExitRecorded(p)
    \/ BackupCheck(p)
    \/ BackupConfirm(p)
    \/ BackupOpen(p)
    \/ BackupCreate(p)
    \/ BackupPermissions(p)
    \/ BackupCopy(p)
    \/ BackupRename(p)
    \/ BackupLog(p)
    \/ RestoreCheck(p)
    \/ RestoreConfirm(p)
    \/ RestoreOpen(p)
    \/ RestoreCreate(p)
    \/ RestorePermissions(p)
    \/ RestoreCopy(p)
    \/ RestoreRename(p)
    \/ RestoreLog(p)
    \/ DeleteCheck(p)
    \/ DeleteConfirm(p)
    \/ DeleteRemove(p)
    \/ DeleteLog(p)

SpecRetry == InitRetry /\ [][NextRetry]_vars

(***************************************************************************)
(* Two instances of the program started together in one directory, both    *)
(* given the same file name and the command backup (main.rs 222-246)       *)
(***************************************************************************)
ConcurrentDirs(t) ==
  { Dir(t, file, backup, NoFile, NoFile, log) :
      file \in { Data(1, 2) },
      backup \in { NoFile, Data(2, 1) },
      log \in { NoFile, OldLog } }

InitConcurrent ==
  /\ instances = Cardinality(Procs)
  /\ maxRuns = Cardinality(Procs)
  /\ clock = Cardinality(Procs)
  /\ \E t \in Targets :
       /\ fs \in ConcurrentDirs(t)
       /\ proc = [p \in Procs |->
                    [IdleProc EXCEPT !.pc = "b_check", !.filename = t, !.command = BACKUP]]
  /\ hist = [p \in Procs |-> [NoHist(fs) EXCEPT !.cmdRead = TRUE]]
  /\ snap = [t \in { Path(t) : t \in Targets } |-> NoFile]
  /\ last = NoLast
  /\ query = NoQuery

NextConcurrent ==
  \E p \in Procs :
    \/ BackupCheck(p)
    \/ BackupConfirm(p)
    \/ BackupOpen(p)
    \/ BackupCreate(p)
    \/ BackupPermissions(p)
    \/ BackupCopy(p)
    \/ BackupRename(p)
    \/ BackupLog(p)

SpecConcurrent == InitConcurrent /\ [][NextConcurrent]_vars

(***************************************************************************)
(* isValidFilename on its own: the strings it is given and the call        *)
(***************************************************************************)
NameChars == { "a", "Z", "_", ".", "/", "\\", "*" }

\* every string of at most MaxNameLen of these characters
ShortNames == UNION { [1..n -> NameChars] : n \in 0..MaxNameLen }

\* n times the character c
Fill(c, n) == [i \in 1..n |-> c]

\* strings around the length limit
LongNames ==
  { Fill("a", n) : n \in { MAX_FILENAME_LENGTH - 1, MAX_FILENAME_LENGTH, MAX_FILENAME_LENGTH + 1 } }
    \cup { Fill("a", MAX_FILENAME_LENGTH - 2) \o <<".", ".">>,
           Fill("a", MAX_FILENAME_LENGTH - 1) \o <<"/">>,
           Fill("a", MAX_FILENAME_LENGTH - 1) \o <<"*">>,
           Fill("a", MAX_FILENAME_LENGTH) \o <<".">>,
           Fill(".", MAX_FILENAME_LENGTH + 1),
           <<".">> \o Fill("Z", MAX_FILENAME_LENGTH - 2) \o <<"_">> }

InitValidate ==
  /\ fs = [n \in Names |-> NoFile]
  /\ maxRuns = 0
  /\ instances = 1
  /\ InitProcs
  /\ last = NoLast
  /\ query \in { [ name |-> s, verdict |-> "unasked" ] : s \in ShortNames \cup LongNames }

\* isValidFilename(name), main.rs 14-24
Validate ==
  /\ query.verdict = "unasked"
  /\ query' = [query EXCEPT !.verdict =
                 IF isValidFilename(query.name) THEN "accepted" ELSE "rejected"]
  /\ UNCHANGED <<fs, proc, hist, clock, maxRuns, instances, snap, last>>

NextValidate == Validate

SpecValidate == InitValidate /\ [][NextValidate]_vars

SpecRoundTrip == InitRoundTrip /\ [][Next]_vars

(***************************************************************************)
(* Properties                                                              *)
(***************************************************************************)
Done(p) == proc[p].pc = "done"

\* the run has dispatched on backup or restore
Replacing(p) ==
  /\ proc[p].pc \notin { "idle", "command" }
  /\ proc[p].command \in { BACKUP, RESTORE }

\* a confirmation line was read
Answered(p) == hist[p].prompted /\ hist[p].failedAt # "read"

\* the answer, trimmed and compared without case, is not "yes"
SaidNo(p) == ToLowercase(Trim(proc[p].confirm)) # <<"y", "e", "s">>

\* the line without its line terminator
Chomp(line) ==
  IF line # <<>> /\ line[Len(line)] = "\n" THEN SubSeq(line, 1, Len(line) - 1) ELSE line

\* content old of a file was overwritten, truncated or removed (new is not old
\* with bytes appended)
Lost(old, new) == old # NoFile /\ (new = NoFile \/ ~IsPrefix(old, new))

\* C1: a successful backup of a file of content c, then any change to the file,
\* then a successful restore leave the file with content c
RoundTrip ==
  \A p \in Procs :
    LET f == Path(proc[p].filename) IN
    (/\ Done(p)
     /\ proc[p].command = RESTORE
     /\ proc[p].result = "Ok"
     /\ hist[p].renamed
     /\ snap[f] # NoFile)
      => fs[f] = snap[f]

\* C1 restricted to files other than the audit log: holds
RoundTripOtherFiles ==
  \A p \in Procs :
    LET f == Path(proc[p].filename) IN
    (/\ Done(p)
     /\ proc[p].command = RESTORE
     /\ proc[p].result = "Ok"
     /\ hist[p].renamed
     /\ proc[p].filename # LogName
     /\ snap[f] # NoFile)
      => fs[f] = snap[f]

\* C2: in every state of a backup or restore the destination holds its content
\* of before the run or the complete content of the source
DestinationAtomic ==
  \A p \in Procs :
    Replacing(p) =>
      \/ fs[Dst(p)] = hist[p].pre[Dst(p)]
      \/ fs[Dst(p)] = hist[p].pre[Src(p)]

\* C2 restricted to files other than the audit log: holds
DestinationAtomicOtherFiles ==
  \A p \in Procs :
    (Replacing(p) /\ proc[p].filename # LogName) =>
      \/ fs[Dst(p)] = hist[p].pre[Dst(p)]
      \/ fs[Dst(p)] = hist[p].pre[Src(p)]

\* C3: a copy that wrote fewer bytes than the recorded size makes the run fail,
\* leaves no staging file, renames nothing and leaves the destination as it was
ShortCopyCleansUp ==
  \A p \in Procs :
    (/\ Done(p)
     /\ Replacing(p)
     /\ proc[p].copied # -1
     /\ proc[p].copied < proc[p].len)
      => /\ proc[p].result # "Ok"
         /\ proc[p].exit = 1
         /\ fs[Staging(p)] = NoFile
         /\ ~hist[p].renamed
         /\ fs[Dst(p)] = hist[p].pre[Dst(p)]

\* C4: when backup or restore has returned, with success or any error, the
\* staging file it created is gone
NoStagingLeft ==
  \A p \in Procs :
    (Done(p) /\ Replacing(p) /\ hist[p].created) => fs[Staging(p)] = NoFile

\* the positive confirmation the run's command requires was given
Confirmed(p) ==
  /\ Answered(p)
  /\ \/ proc[p].command \in { BACKUP, RESTORE } /\ ~SaidNo(p)
     \/ proc[p].command = DELETE /\ Trim(proc[p].confirm) = <<"D", "E", "L", "E", "T", "E">>

\* C5: no file that existed before the run is overwritten, truncated or removed
\* unless the user confirmed in that run
NoLossUnconfirmed ==
  \A p \in Procs :
    proc[p].pc # "idle" =>
      \A n \in Names : Lost(hist[p].pre[n], fs[n]) => Confirmed(p)

\* C6: an overwrite prompt answered with anything but "yes" (trimmed, any case)
\* ends the backup or restore with success and no effect: the directory, the log
\* included, is as before the run, and the process exits with 0
DeclineHasNoEffect ==
  \A p \in Procs :
    (Done(p) /\ Replacing(p) /\ Answered(p) /\ SaidNo(p))
      => /\ proc[p].result = "Ok"
         /\ proc[p].exit = 0
         /\ fs = hist[p].pre
         /\ ~hist[p].created
         /\ ~hist[p].renamed
         /\ hist[p].logged = 0

\* C6 (reached): a backup that found a backup file and was answered "no"
DeclinedBackup ==
  \E p \in Procs :
    /\ Done(p)
    /\ proc[p].command = BACKUP
    /\ Answered(p)
    /\ proc[p].confirm = <<"n", "o", "\n">>
    /\ hist[p].pre[Dst(p)] # NoFile
    /\ proc[p].exit = 0

\* C7 as claimed: delete removes the file exactly when the confirmation line is
\* "DELETE"; on any other line the file stays, nothing is logged, the result is
\* PermissionDenied and the exit code is not 0
DeleteOnlyOnExactLine ==
  \A p \in Procs :
    (Done(p) /\ proc[p].command = DELETE /\ Answered(p)) =>
      LET exact == Chomp(proc[p].confirm) = <<"D", "E", "L", "E", "T", "E">> IN
      /\ hist[p].removed <=> exact
      /\ ~exact => /\ fs = hist[p].pre
                   /\ hist[p].logged = 0
                   /\ proc[p].result = "PermissionDenied"
                   /\ proc[p].exit # 0

\* C7 as amended: delete removes the file exactly when the confirmation line,
\* trimmed, is "DELETE" and the removal does not fail; on any other line the
\* file stays, nothing is logged, the result is PermissionDenied and the exit
\* code is 1; when the removal fails the file stays, nothing is logged and the
\* exit code is 1
DeleteOnlyOnTrimmedLine ==
  \A p \in Procs :
    (proc[p].command = DELETE /\ Answered(p)) =>
      LET typed == Trim(proc[p].confirm) = <<"D", "E", "L", "E", "T", "E">>
          f == Path(proc[p].filename) IN
      /\ proc[p].pc = "d_log" => typed /\ fs[f] = NoFile
      /\ Done(p) =>
           /\ hist[p].removed <=> (typed /\ hist[p].failedAt # "remove")
           /\ ~typed => /\ fs = hist[p].pre
                        /\ fs[f] # NoFile
                        /\ hist[p].logged = 0
                        /\ proc[p].result = "PermissionDenied"
                        /\ proc[p].exit = 1
           /\ hist[p].failedAt = "remove" => /\ fs = hist[p].pre
                                             /\ fs[f] # NoFile
                                             /\ hist[p].logged = 0
                                             /\ proc[p].exit = 1
           /\ hist[p].removed => /\ hist[p].pre[f] # NoFile
                                 /\ fs[f] = NoFile \/ proc[p].filename = LogName

\* C7 (reached): the file was removed on the line " DELETE ", blanks included
DeletedOnPaddedLine ==
  \E p \in Procs :
    /\ Done(p)
    /\ proc[p].command = DELETE
    /\ proc[p].confirm = <<" ", "D", "E", "L", "E", "T", "E", " ", "\n">>
    /\ hist[p].removed
    /\ hist[p].pre[Path(proc[p].filename)] # NoFile
    /\ fs[Path(proc[p].filename)] = NoFile

\* C8: a backup whose source, or a restore whose backup file, is larger than
\* 10 MiB fails with InvalidInput and exit code 1 before any prompt and leaves
\* the whole directory as it was; a source of at most 10 MiB is not rejected
\* as too large
OversizeRejected ==
  \A p \in Procs :
    Replacing(p) =>
      LET source == hist[p].pre[Src(p)] IN
      /\ (source # NoFile /\ Size(source) > 10 * 1024 * 1024) =>
           /\ fs = hist[p].pre
           /\ ~hist[p].prompted
           /\ ~hist[p].created
           /\ ~hist[p].renamed
           /\ hist[p].logged = 0
           /\ Done(p) => proc[p].result = "InvalidInput" /\ proc[p].exit = 1
      /\ (source # NoFile /\ Size(source) <= 10 * 1024 * 1024 /\ Done(p)) =>
           proc[p].result # "InvalidInput"

\* C8 (reached): a backup of an oversized file beside an existing backup file
\* was rejected
OversizeBackupRejected ==
  \E p \in Procs :
    /\ Done(p)
    /\ proc[p].command = BACKUP
    /\ Size(hist[p].pre[Src(p)]) > 10 * 1024 * 1024
    /\ hist[p].pre[Dst(p)] # NoFile
    /\ proc[p].result = "InvalidInput"

\* the run's effect is complete: renamed and logged, or removed
Succeeded(p) ==
  \/ Replacing(p) /\ hist[p].renamed /\ hist[p].logged = 1
  \/ proc[p].command = DELETE /\ hist[p].removed

\* C9 as claimed: the exit code is 0 when the action succeeded or the user
\* declined a confirmation prompt, and 1 otherwise
ExitZeroOnAnyDecline ==
  \A p \in Procs :
    Done(p) =>
      proc[p].exit = IF Succeeded(p) \/ (Answered(p) /\ ~Confirmed(p)) THEN 0 ELSE 1

\* C9 as amended: the exit code is 0 when the action succeeded or the user
\* declined the overwrite prompt of backup or restore, and 1 otherwise: on a
\* declined delete, a validation failure, an unknown command or an error
ExitZeroOnDeclinedOverwrite ==
  \A p \in Procs :
    Done(p) =>
      proc[p].exit =
        IF Succeeded(p) \/ (Replacing(p) /\ Answered(p) /\ SaidNo(p)) THEN 0 ELSE 1

\* C9 (reached): a delete answered "delete" has ended with exit code 1
DeclinedDeleteExitsOne ==
  \E p \in Procs :
    /\ Done(p)
    /\ proc[p].command = DELETE
    /\ Answered(p)
    /\ proc[p].confirm = <<"d", "e", "l", "e", "t", "e", "\n">>
    /\ proc[p].exit = 1

\* C10: a run whose (trimmed) file name is invalid ends with exit code 1 without
\* reading a command and without touching the directory
InvalidFilenameRejectedAtEntry ==
  \A p \in Procs :
    (proc[p].pc # "idle" /\ ~isValidFilename(proc[p].filename)) =>
      /\ Done(p)
      /\ proc[p].exit = 1
      /\ proc[p].command = <<>>
      /\ ~hist[p].cmdRead
      /\ ~hist[p].accessed
      /\ fs = hist[p].pre

\* C10 (reached): the name "../etc/passwd" was entered and the run has ended
TraversalRejected ==
  \E p \in Procs :
    /\ Done(p)
    /\ proc[p].filename = <<".", ".", "/", "e", "t", "c", "/", "p", "a", "s", "s", "w", "d">>
    /\ hist[p].failedAt = "none"
    /\ proc[p].exit = 1

\* C11: a run whose (trimmed) command is not backup, restore or delete ends with
\* exit code 1 at once: no file is looked up, prompted for, created, renamed,
\* removed or logged, and the directory is as before the run
UnknownCommandRejected ==
  \A p \in Procs :
    (/\ hist[p].cmdRead
     /\ proc[p].command \notin { BACKUP, RESTORE, DELETE })
      => /\ Done(p)
         /\ proc[p].exit = 1
         /\ proc[p].result = "none"
         /\ ~hist[p].accessed
         /\ ~hist[p].prompted
         /\ ~hist[p].created
         /\ ~hist[p].renamed
         /\ ~hist[p].removed
         /\ hist[p].logged = 0
         /\ fs = hist[p].pre

\* C11 (reached): the command "Backup" was entered for a valid file name and the
\* run has ended
CapitalisedCommandRejected ==
  \E p \in Procs :
    /\ Done(p)
    /\ isValidFilename(proc[p].filename)
    /\ hist[p].cmdRead
    /\ proc[p].command = <<"B", "a", "c", "k", "u", "p">>
    /\ proc[p].exit = 1

\* C12: when logAction fails after the file operation, delete still returns Ok
\* and exits with 0 with the file removed (a name the logger itself creates
\* aside), while backup and restore return the error and exit with 1 although
\* the rename has put the complete copy of the source in the destination and
\* removed the staging file
LogFailureAsymmetric ==
  \A p \in Procs :
    (Done(p) /\ hist[p].failedAt = "log") =>
      LET f == Path(proc[p].filename) IN
      /\ hist[p].logged = 0
      /\ proc[p].command = DELETE =>
           /\ proc[p].result = "Ok"
           /\ proc[p].exit = 0
           /\ hist[p].removed
           /\ hist[p].pre[f] # NoFile
           /\ fs[f] = NoFile \/ (proc[p].filename = LogName /\ fs[f] = Empty)
      /\ proc[p].command \in { BACKUP, RESTORE } =>
           /\ proc[p].result = "Io"
           /\ proc[p].exit = 1
           /\ hist[p].renamed
           /\ fs[Dst(p)] = hist[p].pre[Src(p)]
           /\ fs[Staging(p)] = NoFile

\* C12 (reached): a delete whose log write failed has ended with exit code 0
DeleteUnloggedExitsZero ==
  \E p \in Procs :
    /\ Done(p)
    /\ proc[p].command = DELETE
    /\ hist[p].failedAt = "log"
    /\ hist[p].removed
    /\ fs[Path(proc[p].filename)] = NoFile
    /\ proc[p].exit = 0

\* C12 (reached): a backup whose log write failed has ended with exit code 1
\* beside its complete backup file
BackupUnloggedExitsOne ==
  \E p \in Procs :
    /\ Done(p)
    /\ proc[p].command = BACKUP
    /\ hist[p].failedAt = "log"
    /\ fs[Dst(p)] = hist[p].pre[Src(p)]
    /\ proc[p].exit = 1

\* a step of a run wrote its log line
Logs(p) == hist'[p].logged = hist[p].logged + 1

\* C14: the program only ever appends to the audit log: a step that logs adds
\* exactly one line to the log as it was, and no step of the program truncates,
\* rewrites or removes what the log held
LogAppendOnly ==
  [][UserEdit \/
       /\ ~Lost(fs[Path(LogName)], fs'[Path(LogName)])
       /\ \A p \in Procs :
            Logs(p) => \E line \in { LogLine(clock, a) :
                                       a \in { BackupMsg(proc[p].filename),
                                               RestoreMsg(proc[p].filename),
                                               DeleteMsg(proc[p].filename) } } :
                         fs'[Path(LogName)] = AppendLine(fs[Path(LogName)], line)]_vars

\* C14 restricted to runs on files other than the audit log: holds
LogAppendOnlyOtherFiles ==
  [][UserEdit \/ (\E p \in Procs : proc[p].filename = LogName) \/
       /\ ~Lost(fs[Path(LogName)], fs'[Path(LogName)])
       /\ \A p \in Procs :
            Logs(p) => \E line \in { LogLine(clock, a) :
                                       a \in { BackupMsg(proc[p].filename),
                                               RestoreMsg(proc[p].filename),
                                               DeleteMsg(proc[p].filename) } } :
                         fs'[Path(LogName)] = AppendLine(fs[Path(LogName)], line)]_vars

\* the run's effect on the directory has happened: the rename of backup or
\* restore, the removal of delete
Effected(p) == hist[p].renamed \/ hist[p].removed

\* the audit log as the run's effect leaves it, before the run logs
LogAfterEffect(p) ==
  IF proc[p].filename = LogName /\ proc[p].command = RESTORE /\ hist[p].renamed
  THEN hist[p].pre[Src(p)]
  ELSE IF proc[p].filename = LogName /\ proc[p].command = DELETE /\ hist[p].removed
  THEN NoFile
  ELSE hist[p].pre[Path(LogName)]

\* content new is content old (or an absent file) with the one line appended
OneLineMore(old, new, line) ==
  /\ new # NoFile
  /\ new.id = (IF old = NoFile THEN Empty.id ELSE old.id)
  /\ new.len = old.len
  /\ Len(new.tail) = Len(old.tail) + 1
  /\ SubSeq(new.tail, 1, Len(old.tail)) = old.tail
  /\ new.tail[Len(new.tail)] = line

\* the line the run logs
RunLine(p) ==
  LogLine(clock,
          IF proc[p].command = BACKUP THEN BackupMsg(proc[p].filename)
          ELSE IF proc[p].command = RESTORE THEN RestoreMsg(proc[p].filename)
          ELSE DeleteMsg(proc[p].filename))

\* C19: a run appends at most one log line and only after its effect (rename or
\* removal); a run without effect leaves the log as it was; a successful backup
\* with no backup file before it leaves the backup file with the source's
\* content and the log with exactly one more line, and exits with 0
OneLogLineAfterEffect ==
  \A p \in Procs :
    proc[p].pc # "idle" =>
      /\ hist[p].logged \in { 0, 1 }
      /\ hist[p].logged = 1 => /\ Effected(p)
                               /\ Done(p)
                               /\ OneLineMore(LogAfterEffect(p), fs[Path(LogName)], RunLine(p))
      /\ ~Effected(p) => /\ hist[p].logged = 0
                         /\ fs[Path(LogName)] = hist[p].pre[Path(LogName)]
      /\ (/\ Done(p)
          /\ proc[p].command = BACKUP
          /\ proc[p].result = "Ok"
          /\ hist[p].pre[Dst(p)] = NoFile)
           => /\ fs[Dst(p)] = hist[p].pre[Src(p)]
              /\ fs[Dst(p)] # NoFile
              /\ hist[p].logged = 1
              /\ OneLineMore(hist[p].pre[Path(LogName)], fs[Path(LogName)], RunLine(p))
              /\ proc[p].exit = 0

\* C19 (reached): a backup of notes.txt with no notes.txt.bak has succeeded and
\* logged its line
FirstBackupLogged ==
  \E p \in Procs :
    /\ Done(p)
    /\ proc[p].command = BACKUP
    /\ proc[p].filename = UserFile
    /\ proc[p].result = "Ok"
    /\ hist[p].pre[Dst(p)] = NoFile
    /\ fs[Dst(p)] = hist[p].pre[Src(p)]
    /\ hist[p].logged = 1

\* the names a run may write: its destination, its staging file and the log
Written(p) == { Dst(p), Staging(p), Path(LogName) }

\* C20: backup leaves the source as it was, restore and delete leave the backup
\* file as it was, no file other than the run's destination (its staging file
\* and the log aside) is created, changed or removed, and a successful backup
\* leaves the one backup file holding the source's content
OwnDestinationOnly ==
  \A p \in Procs :
    proc[p].command \in { BACKUP, RESTORE, DELETE } =>
      LET f == Path(proc[p].filename)
          bak == Path(BakName(proc[p].filename)) IN
      /\ proc[p].command = BACKUP => fs[f] = hist[p].pre[f]
      /\ proc[p].command \in { RESTORE, DELETE } => fs[bak] = hist[p].pre[bak]
      /\ proc[p].command \in { BACKUP, RESTORE } =>
           \A n \in Names \ Written(p) : fs[n] = hist[p].pre[n]
      /\ proc[p].command = DELETE =>
           \A n \in Names \ { f, Path(LogName) } : fs[n] = hist[p].pre[n]
      /\ (Done(p) /\ proc[p].command = BACKUP /\ hist[p].renamed) =>
           fs[bak] = hist[p].pre[f]

\* C20 restricted to runs on files other than the audit log: holds
OwnDestinationOnlyOtherFiles ==
  \A p \in Procs :
    (proc[p].command \in { BACKUP, RESTORE, DELETE } /\ proc[p].filename # LogName) =>
      LET f == Path(proc[p].filename)
          bak == Path(BakName(proc[p].filename)) IN
      /\ proc[p].command = BACKUP => fs[f] = hist[p].pre[f]
      /\ proc[p].command \in { RESTORE, DELETE } => fs[bak] = hist[p].pre[bak]
      /\ proc[p].command \in { BACKUP, RESTORE } =>
           \A n \in Names \ Written(p) : fs[n] = hist[p].pre[n]
      /\ proc[p].command = DELETE =>
           \A n \in Names \ { f, Path(LogName) } : fs[n] = hist[p].pre[n]
      /\ (Done(p) /\ proc[p].command = BACKUP /\ hist[p].renamed) =>
           fs[bak] = hist[p].pre[f]

\* isValidFilename has returned
Asked == query.verdict \in { "accepted", "rejected" }

HasChar(s, c) == \E i \in 1..Len(s) : s[i] = c

HasDotDot(s) == \E i \in 1..(Len(s) - 1) : s[i] = "." /\ s[i + 1] = "."

Digits == { "0", "1", "2", "3", "4", "5", "6", "7", "8", "9" }

\* A-Z, a-z, 0-9, '_', '-' and '.'
AllowedAlphabet ==
  { UpperCase[i] : i \in 1..26 } \cup { LowerCase[i] : i \in 1..26 }
    \cup Digits \cup { "_", "-", "." }

OnlyAllowed(s) == \A i \in 1..Len(s) : s[i] \in AllowedAlphabet

\* C15: a string that contains '/', '\' or ".." is rejected, whatever its other
\* characters and its length
RejectsPathCharacters ==
  (/\ Asked
   /\ \/ HasChar(query.name, "/")
      \/ HasChar(query.name, "\\")
      \/ HasDotDot(query.name))
    => query.verdict = "rejected"

\* C15 (reached): the string "a..", of allowed characters only, was rejected
DotDotRejected ==
  /\ query.name = <<"a", ".", ".">>
  /\ query.verdict = "rejected"

\* C16 as claimed: a string of 1 to 255 characters of the allowed alphabet is
\* accepted
AcceptsAllowedAlphabet ==
  (/\ Asked
   /\ OnlyAllowed(query.name)
   /\ Len(query.name) >= 1
   /\ Len(query.name) <= 255)
    => query.verdict = "accepted"

\* C16 as amended: a string of 1 to 255 characters of the allowed alphabet that
\* does not contain ".." is accepted
AcceptsAllowedAlphabetWithoutDotDot ==
  (/\ Asked
   /\ OnlyAllowed(query.name)
   /\ ~HasDotDot(query.name)
   /\ Len(query.name) >= 1
   /\ Len(query.name) <= 255)
    => query.verdict = "accepted"

\* C16 (reached): the string "._Z", of allowed characters with one dot, was
\* accepted
DottedNameAccepted ==
  /\ query.name = <<".", "_", "Z">>
  /\ query.verdict = "accepted"

\* C17: the empty string and every string of more than 255 characters are
\* rejected; a string of exactly 255 allowed characters without ".." is accepted
LengthBounds ==
  Asked =>
    /\ Len(query.name) = 0 => query.verdict = "rejected"
    /\ Len(query.name) > 255 => query.verdict = "rejected"
    /\ (/\ Len(query.name) = 255
        /\ OnlyAllowed(query.name)
        /\ ~HasDotDot(query.name)) => query.verdict = "accepted"

\* C17 (reached): a string of exactly 255 allowed characters was accepted
LongestNameAccepted ==
  /\ Len(query.name) = 255
  /\ query.verdict = "accepted"

\* C17 (reached): a string of 256 allowed characters was rejected
TooLongNameRejected ==
  /\ Len(query.name) = 256
  /\ OnlyAllowed(query.name)
  /\ ~HasDotDot(query.name)
  /\ query.verdict = "rejected"

\* the steps between the checks of backup or restore and its rename: reading
\* the answer, opening the source, creating the staging file, setting its
\* permissions, copying, removing a short copy
StepsBeforeRename == { "read", "open", "create", "perm", "copy", "short", "unlink" }

\* this run repeats the run before it
Rerun(p) ==
  /\ last.run
  /\ Replacing(p)
  /\ last.command = proc[p].command
  /\ last.filename = proc[p].filename

\* this run has ended, met no fault and was confirmed where it asked
DoneUnhindered(p) ==
  /\ Done(p)
  /\ hist[p].failedAt = "none"
  /\ hist[p].prompted => ~SaidNo(p)

\* the destination after a run that succeeds at once in the directory dir
FirstTry(p, dir) ==
  IF Dst(p) = Path(LogName) THEN AppendLine(dir[Src(p)], RunLine(p)) ELSE dir[Src(p)]

\* C13 as claimed: a backup or restore that has failed without renaming leaves
\* all files but its staging file as they were, and the same command run again,
\* confirmed and without faults, succeeds with the destination a first
\* successful run would have left
RetryAfterAnyFailure ==
  \A p \in Procs :
    /\ (Done(p) /\ Replacing(p) /\ proc[p].result # "Ok" /\ ~hist[p].renamed) =>
         \A n \in Names \ { Staging(p) } : fs[n] = hist[p].pre[n]
    /\ (/\ Rerun(p)
        /\ last.result # "Ok"
        /\ ~last.renamed
        /\ DoneUnhindered(p))
         => /\ proc[p].result = "Ok"
            /\ proc[p].exit = 0
            /\ hist[p].renamed
            /\ fs[Dst(p)] = FirstTry(p, last.pre)

\* C13 as amended: a backup or restore that has passed its checks and failed at
\* a step before its rename leaves all files but its staging file as they were,
\* and the same command run again, confirmed and without faults, succeeds with
\* the destination a first successful run would have left and no staging file
RetryAfterFailedCopy ==
  \A p \in Procs :
    /\ (Done(p) /\ Replacing(p) /\ hist[p].failedAt \in StepsBeforeRename) =>
         /\ proc[p].result # "Ok"
         /\ ~hist[p].renamed
         /\ \A n \in Names \ { Staging(p) } : fs[n] = hist[p].pre[n]
    /\ (/\ Rerun(p)
        /\ last.failedAt \in StepsBeforeRename
        /\ DoneUnhindered(p))
         => /\ proc[p].result = "Ok"
            /\ proc[p].exit = 0
            /\ hist[p].renamed
            /\ fs[Dst(p)] = FirstTry(p, last.pre)
            /\ fs[Staging(p)] = NoFile

\* C13 (reached): a backup whose copy failed left its staging file, and the
\* backup run again has succeeded
RetriedBackupSucceeded ==
  \E p \in Procs :
    /\ Rerun(p)
    /\ proc[p].command = BACKUP
    /\ last.failedAt = "copy"
    /\ hist[p].pre[Staging(p)] # NoFile
    /\ DoneUnhindered(p)
    /\ proc[p].result = "Ok"
    /\ fs[Dst(p)] = last.pre[Src(p)]

\* instance q has created its staging file and not yet renamed it or returned
InFlight(q) == proc[q].pc \in { "b_perm", "b_copy", "b_rename" }

\* instance p creates its staging file in this step
Creates(p) == proc[p].pc = "b_create" /\ proc'[p].pc = "b_perm"

\* instance p renames its staging file in this step
Renames(p) == proc[p].pc = "b_rename" /\ proc'[p].pc = "b_log"

\* C18: two instances backing up the same file share the staging name: the
\* creation of the staging file by one truncates the staging file the other
\* has in flight, and the rename by one takes the other's staging file away
SharedStagingInterferes ==
  [][\A p, q \in Procs :
       (p # q /\ proc[p].filename = proc[q].filename /\ InFlight(q)) =>
         /\ Creates(p) => fs'[Staging(q)] = Empty
         /\ Renames(p) => /\ fs'[Staging(q)] = NoFile
                          /\ fs'[Dst(p)] = fs[Staging(q)]]_vars

\* C18 (reached): the backup file is visible, renamed without any fault, and is
\* empty while the source is not: the other instance has truncated the staging
\* file between the first one's copy and rename
BackupVisibleIncomplete ==
  \E p, q \in Procs :
    /\ p # q
    /\ proc[p].filename = proc[q].filename
    /\ hist[p].renamed
    /\ hist[p].failedAt = "none"
    /\ hist[q].created
    /\ hist[q].failedAt = "none"
    /\ fs[Path(proc[p].filename)] # Empty
    /\ fs[Dst(p)] = Empty

\* C18 (reached): an instance has failed at its rename because the other one
\* had renamed the shared staging file away
RenameFoundNothing ==
  \E p, q \in Procs :
    /\ p # q
    /\ Done(p)
    /\ hist[p].failedAt = "rename of nothing"
    /\ proc[p].exit = 1
    /\ hist[q].renamed

====
